---- MODULE Spec2Model ----
(***************************************************************************)
(* Model of the podcast catalog browser: functions.js (element builder,    *)
(* list date formatter, card renderer, grid controller) and the Modal      *)
(* class.                                                                  *)
(*                                                                         *)
(* JavaScript values are records of one shape, so that values of           *)
(* different JavaScript types can be compared:                             *)
(*   t : "undefined" | "number" | "NaN" | "string" | "array"               *)
(*   n : the number, s : the characters of a string, a : array elements.   *)
(* A string is the sequence of its characters; a piece of text that is     *)
(* never parsed may be written as one multi-character element.             *)
(* Times are whole seconds (TLC integers are 32 bit): the code's           *)
(* (now - date) / (1000*60*60*24) on milliseconds is (now - date) /        *)
(* (60*60*24) on seconds for timestamps with whole-second resolution.      *)
(***************************************************************************)
EXTENDS Integers, Sequences, FiniteSets, TLC

VARIABLES podcasts, genres, now, grid, modal, lastEvent, lastOpen, lastToken,
          call, ret, pc

vars == <<podcasts, genres, now, grid, modal, lastEvent, lastOpen, lastToken,
          call, ret, pc>>

----------------------------------------------------------------------------
(* Bounds of the model                                                     *)

MaxTokenLen == 3
MaxItems == 2
MaxAge == 32
MaxPodcasts == 2
MaxGenreId == 12

----------------------------------------------------------------------------
(* JavaScript values                                                       *)

Undefined == [t |-> "undefined", n |-> 0, s |-> <<>>, a |-> <<>>]
NaN == [t |-> "NaN", n |-> 0, s |-> <<>>, a |-> <<>>]
Num(k) == [t |-> "number", n |-> k, s |-> <<>>, a |-> <<>>]
Str(chars) == [t |-> "string", n |-> 0, s |-> chars, a |-> <<>>]
Arr(elems) == [t |-> "array", n |-> 0, s |-> <<>>, a |-> elems]
\* An ISO timestamp string: a non-empty string, given by the instant it denotes.
Iso(ts) == [t |-> "string", n |-> ts, s |-> <<"iso">>, a |-> <<>>]
EmptyStr == Str(<<>>)

\* ToBoolean: undefined, NaN, 0 and "" are falsy.
Truthy(v) ==
  CASE v.t = "undefined" -> FALSE
    [] v.t = "NaN" -> FALSE
    [] v.t = "number" -> v.n # 0
    [] v.t = "string" -> v.s # <<>>
    [] v.t = "array" -> TRUE

\* a || b
Or(v, w) == IF Truthy(v) THEN v ELSE w

DigitChar == <<"0", "1", "2", "3", "4", "5", "6", "7", "8", "9">>
DigitVal == [c \in {DigitChar[i] : i \in 1..10} |->
               CHOOSE d \in 0..9 : DigitChar[d + 1] = c]
IsDigit(c) == c \in DOMAIN DigitVal

RECURSIVE Digits(_)
Digits(k) ==
  IF k < 10 THEN <<DigitChar[k + 1]>>
  ELSE Digits(k \div 10) \o <<DigitChar[(k % 10) + 1]>>

\* Number::toString for an integer.
NumToStr(k) == IF k < 0 THEN <<"-">> \o Digits(-k) ELSE Digits(k)

\* ToString, as String(v), setAttribute and a template literal apply it.
ToStr(v) ==
  CASE v.t = "undefined" -> <<"u", "n", "d", "e", "f", "i", "n", "e", "d">>
    [] v.t = "NaN" -> <<"N", "a", "N">>
    [] v.t = "number" -> NumToStr(v.n)
    [] v.t = "string" -> v.s

String(v) == Str(ToStr(v))

RECURSIVE TrimLeft(_)
TrimLeft(chars) ==
  IF chars # <<>> /\ Head(chars) = " " THEN TrimLeft(Tail(chars)) ELSE chars

RECURSIVE TrimRight(_)
TrimRight(chars) ==
  IF chars # <<>> /\ chars[Len(chars)] = " "
  THEN TrimRight(SubSeq(chars, 1, Len(chars) - 1)) ELSE chars

RECURSIVE DecVal(_)
DecVal(chars) ==
  IF chars = <<>> THEN 0
  ELSE 10 * DecVal(SubSeq(chars, 1, Len(chars) - 1)) + DigitVal[chars[Len(chars)]]

\* StringToNumber for strings without ".", exponents, radix prefixes or
\* "Infinity": white space is trimmed, the empty string is 0, an optionally
\* signed run of decimal digits is its value, anything else is NaN.
StringToNumber(chars) ==
  LET trimmed == TrimRight(TrimLeft(chars))
      signed == trimmed # <<>> /\ Head(trimmed) \in {"-", "+"}
      body == IF signed THEN Tail(trimmed) ELSE trimmed
  IN IF trimmed = <<>> THEN Num(0)
     ELSE IF body # <<>> /\ \A i \in 1..Len(body) : IsDigit(body[i])
          THEN Num(IF Head(trimmed) = "-" THEN -DecVal(body) ELSE DecVal(body))
          ELSE NaN

\* Number(v)
Number(v) ==
  CASE v.t = "undefined" -> NaN
    [] v.t = "NaN" -> NaN
    [] v.t = "number" -> v
    [] v.t = "string" -> StringToNumber(v.s)

isNaN(v) == Number(v).t = "NaN"

\* Array.prototype.includes (SameValueZero: no conversion between types).
includes(arr, v) == \E i \in 1..Len(arr.a) : arr.a[i] = v

\* Optional chaining: xs?.includes(v) is undefined (falsy) when xs is undefined.
optIncludes(arr, v) == IF arr.t = "undefined" THEN FALSE ELSE includes(arr, v)

RECURSIVE filterFrom(_, _, _)
filterFrom(elems, keep, i) ==
  IF i > Len(elems) THEN <<>>
  ELSE (IF keep[i] THEN <<elems[i]>> ELSE <<>>) \o filterFrom(elems, keep, i + 1)

\* Array.prototype.filter: keep[i] is the callback's answer for element i.
filter(elems, keep) == filterFrom(elems, keep, 1)

----------------------------------------------------------------------------
(* Data: podcasts and genres are objects of one shape; a field an object   *)
(* does not have reads as undefined.                                       *)

Obj(id, title, description, image, seasons, gs, updated, shows) ==
  [id |-> id, title |-> title, description |-> description, image |-> image,
   seasons |-> seasons, genres |-> gs, updated |-> updated, shows |-> shows]

NoItem ==
  Obj(Undefined, Undefined, Undefined, Undefined, Undefined, Undefined,
      Undefined, Undefined)

\* genreMap[key]: property keys are strings, a later genre overwrites an
\* earlier one with the same key.
genreMap(key) ==
  LET hits == {i \in DOMAIN genres : ToStr(genres[i].id) = ToStr(key)}
  IN IF hits = {} THEN Undefined
     ELSE genres[CHOOSE i \in hits : \A j \in hits : j <= i].title

----------------------------------------------------------------------------
(* DOM nodes                                                               *)

\* A click listener: the function it calls and the values it closes over.
NoHandler == [fn |-> "none", item |-> NoItem, type |-> ""]
Handler(fn, item, type) == [fn |-> fn, item |-> item, type |-> type]

NoOptions ==
  [className |-> Undefined, content |-> Undefined, attrs |-> <<>>,
   children |-> <<>>, click |-> NoHandler]

Attr(key, value) == [key |-> key, value |-> ToStr(value)]

createElement(tag, options) ==
  [tag |-> tag,
   className |-> IF Truthy(options.className) THEN options.className.s ELSE <<>>,
   text |-> IF Truthy(options.content) THEN ToStr(options.content) ELSE <<>>,
   attrs |-> options.attrs,
   children |-> options.children,
   click |-> options.click]

EmptyGrid == createElement("div", NoOptions)

\* el.textContent = chars
setText(el, chars) == [el EXCEPT !.text = chars, !.children = <<>>]

\* el.innerHTML = ''
clearNode(el) == [el EXCEPT !.text = <<>>, !.children = <<>>]

appendChild(el, child) == [el EXCEPT !.children = Append(@, child)]

----------------------------------------------------------------------------
(* Formatter                                                               *)

DaySeconds == 60 * 60 * 24

\* new Date(isoString).getTime(): the instant of an ISO timestamp; undefined
\* and strings that are no timestamp give an invalid date.
DateOf(iso) == IF iso.t = "string" /\ iso.s = <<"iso">> THEN Num(iso.n) ELSE NaN

\* toLocaleDateString: the calendar day of the instant in the given style.
toLocaleDateString(date, style) ==
  IF date.t = "NaN" THEN <<"Invalid Date">>
  ELSE <<style>> \o NumToStr(date.n \div DaySeconds)

formatDate(isoString) ==
  LET date == DateOf(isoString)
      diff == IF date.t = "NaN" THEN NaN ELSE Num((now - date.n) \div DaySeconds)
  IN IF diff.t = "number" /\ diff.n = 0 THEN Str(<<"Updated today">>)
     ELSE IF diff.t = "number" /\ diff.n = 1 THEN Str(<<"Updated yesterday">>)
     ELSE IF diff.t = "number" /\ diff.n <= 30
          THEN Str(<<"Updated ">> \o ToStr(diff) \o <<" days ago">>)
     ELSE Str(<<"Updated on ">> \o toLocaleDateString(date, "short"))

----------------------------------------------------------------------------
(* Card renderer                                                           *)

Calendar == "<calendar> "

RECURSIVE tagsFrom(_, _)
tagsFrom(ids, i) ==
  IF i > Len(ids) THEN <<>>
  ELSE <<createElement("span",
           [NoOptions EXCEPT
              !.className = Str(<<"tag">>),
              !.content = Or(genreMap(ids[i]),
                             Str(<<"Genre ">> \o ToStr(ids[i])))])>>
         \o tagsFrom(ids, i + 1)

\* createTags(genreIds = []): the default stands in for undefined.
createTags(genreIds) ==
  [createElement("div", [NoOptions EXCEPT !.className = Str(<<"tags">>)])
     EXCEPT !.children = tagsFrom(IF genreIds.t = "undefined" THEN <<>>
                                  ELSE genreIds.a, 1)]

createCard(item, type) ==
  IF type = "podcast"
  THEN LET img == createElement("img",
                    [NoOptions EXCEPT
                       !.attrs = <<Attr("src", item.image),
                                   Attr("alt", Str(ToStr(item.title) \o <<" Cover">>))>>])
           cover == createElement("div",
                      [NoOptions EXCEPT !.className = Str(<<"cover">>),
                                        !.children = <<img>>])
           title == createElement("h3", [NoOptions EXCEPT !.content = item.title])
           meta == createElement("p",
                     [NoOptions EXCEPT
                        !.className = Str(<<"meta">>),
                        !.content = Str(<<Calendar>> \o ToStr(item.seasons)
                                          \o <<" seasons">>)])
           tags == createTags(item.genres)
           updated == createElement("p",
                        [NoOptions EXCEPT !.className = Str(<<"updated">>),
                                          !.content = formatDate(item.updated)])
       IN createElement("div",
            [NoOptions EXCEPT
               !.className = Str(<<"card">>),
               !.children = <<cover, title, meta, tags, updated>>,
               !.click = Handler("openModal", item, "podcast")])
  ELSE LET title == createElement("h3", [NoOptions EXCEPT !.content = item.title])
           desc == createElement("p", [NoOptions EXCEPT !.content = item.description])
       IN createElement("div",
            [NoOptions EXCEPT
               !.className = Str(<<"card genre-card">>),
               !.children = <<title, desc>>,
               !.click = Handler("openModal", item, "genre")])

----------------------------------------------------------------------------
(* Grid controller                                                         *)

RECURSIVE appendCards(_, _, _, _)
appendCards(el, items, type, i) ==
  IF i > Len(items) THEN el
  ELSE appendCards(appendChild(el, createCard(items[i], type)), items, type, i + 1)

\* renderItems without grid.innerHTML = ''.
renderItems_noClear(el, items, type) ==
  IF Len(items) = 0
  THEN appendChild(el,
         createElement("p", [NoOptions EXCEPT !.content = Str(<<"No items found.">>)]))
  ELSE appendCards(el, items, type, 1)

renderItems(el, items, type) ==
  LET cleared == clearNode(el)
  IN IF Len(items) = 0
     THEN appendChild(cleared,
            createElement("p", [NoOptions EXCEPT !.content = Str(<<"No items found.">>)]))
     ELSE appendCards(cleared, items, type, 1)

All == <<"a", "l", "l">>

\* filterByGenre that looks the token up as it is, without Number.
filterByGenre_rawToken(items, genreId) ==
  IF genreId = Str(All) THEN items
  ELSE IF isNaN(genreId) THEN items
       ELSE filter(items, [i \in 1..Len(items) |-> includes(items[i].genres, genreId)])

filterByGenre(items, genreId) ==
  IF genreId = Str(All) THEN items
  ELSE LET id == Number(genreId)
       IN IF isNaN(genreId) THEN items
          ELSE filter(items, [i \in 1..Len(items) |-> includes(items[i].genres, id)])

\* The option values of the filter control: "all", then each genre id as
\* setAttribute stores it.
populateGenreFilter ==
  <<Str(All)>> \o [i \in 1..Len(genres) |-> String(genres[i].id)]

----------------------------------------------------------------------------
(* Modal                                                                   *)

Region == createElement("div", NoOptions)

\* The modal as the page's markup gives it: every region empty, the overlay
\* hidden.
NewModal ==
  [hidden |-> TRUE, modalCover |-> Region, modalTitle |-> Region,
   modalDesc |-> Region, modalGenres |-> Region, modalUpdated |-> Region,
   modalSeasons |-> Region, sectionTitle |-> Region]

_setCover(m, imageUrl, title) ==
  LET img == [createElement("img", NoOptions) EXCEPT
                !.attrs = <<Attr("src", imageUrl),
                            Attr("alt", Str(ToStr(title) \o <<" Cover">>)),
                            Attr("style.width", Str(<<"100%">>)),
                            Attr("style.height", Str(<<"100%">>)),
                            Attr("style.objectFit", Str(<<"cover">>))>>]
      cleared == clearNode(m.modalCover)
  IN [m EXCEPT !.modalCover = IF Truthy(imageUrl) THEN appendChild(cleared, img)
                              ELSE cleared]

_setTitle(m, title) ==
  [m EXCEPT !.modalTitle = setText(@, ToStr(Or(title, EmptyStr)))]

_setDescription(m, description) ==
  [m EXCEPT !.modalDesc = setText(@, ToStr(Or(description, EmptyStr)))]

_setUpdated(m, updated) ==
  IF ~Truthy(updated) THEN [m EXCEPT !.modalUpdated = setText(@, <<>>)]
  ELSE [m EXCEPT !.modalUpdated =
          setText(@, <<Calendar, "Last updated: ">>
                       \o toLocaleDateString(DateOf(updated), "long"))]

RECURSIVE genreTagsFrom(_, _)
genreTagsFrom(ids, i) ==
  IF i > Len(ids) THEN <<>>
  ELSE <<[createElement("span", NoOptions) EXCEPT
            !.className = <<"tag">>,
            !.text = ToStr(Or(genreMap(String(ids[i])),
                              Or(genreMap(Number(ids[i])),
                                 Str(<<"Genre ">> \o ToStr(ids[i])))))]>>
         \o genreTagsFrom(ids, i + 1)

_setGenres(m, genreIds) ==
  [m EXCEPT !.modalGenres =
     [clearNode(@) EXCEPT !.children = genreTagsFrom(genreIds.a, 1)]]

_setSeasons(m, seasons) ==
  LET cleared == clearNode(m.modalSeasons)
  IN [m EXCEPT !.modalSeasons =
        IF Truthy(seasons) THEN setText(cleared, <<"Seasons: ">> \o ToStr(seasons))
        ELSE cleared]

RECURSIVE showDivsFrom(_, _)
showDivsFrom(shows, i) ==
  IF i > Len(shows) THEN <<>>
  ELSE <<[createElement("div", NoOptions) EXCEPT
            !.className = <<"show-item">>,
            !.text = IF shows[i].title.t = "undefined" THEN <<>>
                     ELSE ToStr(shows[i].title),
            !.click = Handler("open", shows[i], "")]>>
         \o showDivsFrom(shows, i + 1)

NoShowsText == <<"No shows available for this genre.">>

_setShowsForGenre(m, genre) ==
  LET cleared == clearNode(m.modalSeasons)
      shows == filter(podcasts,
                 [i \in 1..Len(podcasts) |->
                    \/ optIncludes(genre.shows, podcasts[i].id)
                    \/ optIncludes(genre.shows, String(podcasts[i].id))])
      empty == [createElement("div", NoOptions) EXCEPT !.className = <<"shows-list">>]
      showsContainer ==
        IF Len(shows) = 0 THEN setText(empty, NoShowsText)
        ELSE [empty EXCEPT !.children = showDivsFrom(shows, 1)]
  IN [m EXCEPT !.modalSeasons = appendChild(cleared, showsContainer)]

_setSectionTitle(m, title) == [m EXCEPT !.sectionTitle = setText(@, title)]

\* _openGenre without its calls of _setCover and _setUpdated.
_openGenre_keepsCover(m, genre) ==
  LET m2 == _setTitle(m, genre.title)
      m3 == _setDescription(m2, genre.description)
      m4 == _setGenres(m3, Arr(<<genre.id>>))
      m6 == _setShowsForGenre(m4, genre)
  IN [m6 EXCEPT !.hidden = FALSE]

_openGenre(m, genre) ==
  LET m1 == _setCover(m, EmptyStr, EmptyStr)
      m2 == _setTitle(m1, genre.title)
      m3 == _setDescription(m2, genre.description)
      m4 == _setGenres(m3, Arr(<<genre.id>>))
      m5 == _setUpdated(m4, EmptyStr)
      m6 == _setShowsForGenre(m5, genre)
  IN [m6 EXCEPT !.hidden = FALSE]

_openPodcast(m, podcast) ==
  LET m1 == _setCover(m, podcast.image, podcast.title)
      m2 == _setTitle(m1, podcast.title)
      m3 == _setDescription(m2, podcast.description)
      m4 == _setUpdated(m3, podcast.updated)
      m5 == _setGenres(m4, podcast.genres)
      m6 == _setSeasons(m5, podcast.seasons)
  IN [m6 EXCEPT !.hidden = FALSE]

open(m, data, isGenre) ==
  LET m1 == [m EXCEPT !.modalSeasons = clearNode(@)]
      m2 == _setSectionTitle(m1, IF isGenre THEN <<"Shows">> ELSE <<"Seasons">>)
  IN IF isGenre THEN _openGenre(m2, data) ELSE _openPodcast(m2, data)

\* close with classList.toggle in place of classList.add.
close_toggle(m) == [m EXCEPT !.hidden = ~@]

close(m) == [m EXCEPT !.hidden = TRUE]

\* The window's click listener, which every click reaches after the
\* target's own listener.
windowClick(m, target) == IF target = "modal" THEN close(m) ELSE m

\* The window's keydown listener.
windowKeydown(m, key) == IF key = "Escape" THEN close(m) ELSE m

openModal(m, item, type) == open(m, item, type = "genre")

----------------------------------------------------------------------------
(* Data the page is loaded with                                            *)

RECURSIVE SeqsUpTo(_, _)
\* The sequences over S of length at most k.
SeqsUpTo(S, k) ==
  IF k = 0 THEN {<<>>}
  ELSE LET shorter == SeqsUpTo(S, k - 1)
       IN shorter \cup {Append(q, x) : q \in shorter, x \in S}

\* Day 100 after the epoch, at midnight.
Now0 == 100 * DaySeconds

Genre(k, shows) ==
  Obj(Num(k), Str(<<"Genre title ">> \o NumToStr(k)),
      Str(<<"Genre description ">> \o NumToStr(k)),
      Undefined, Undefined, Undefined, Undefined, shows)

\* A podcast with every optional field (full) or none of them.
Podcast(id, gs, full) ==
  Obj(id, Str(<<"Show ", id.t, " ">> \o ToStr(id)),
      Str(<<"About ", id.t, " ">> \o ToStr(id)),
      IF full THEN Str(<<"https://img/">> \o ToStr(id)) ELSE Undefined,
      IF full THEN Num(3) ELSE Undefined,
      gs,
      IF full THEN Iso(Now0 - 2 * DaySeconds) ELSE Undefined,
      Undefined)

PodcastPool ==
  {Podcast(Num(1), Arr(<<Num(1), Num(2)>>), full) : full \in BOOLEAN}
    \cup {Podcast(Str(<<"1">>), Arr(<<Num(2)>>), TRUE),
          Podcast(Num(2), Arr(<<Num(9)>>), FALSE)}

\* Podcast collections: ids are unique.
PodcastLists ==
  {ps \in SeqsUpTo(PodcastPool, MaxPodcasts) :
     \A i, j \in 1..Len(ps) : i # j => ps[i].id # ps[j].id}

ShowLists == {Undefined, Arr(<<Num(2), Str(<<"1">>)>>)}

GenreLists ==
  {<<Genre(1, shows), Genre(2, Arr(<<Str(<<"2">>), Num(1)>>))>> : shows \in ShowLists}

----------------------------------------------------------------------------
(* The page: initial render and event handlers                             *)

NoCall == [fn |-> "none", items |-> <<>>, token |-> Undefined, type |-> "",
           iso |-> Undefined, before |-> EmptyGrid]
NoRet == [items |-> <<>>, value |-> Undefined, node |-> Region]

\* Whether the modal shows a cover image and whether its seasons/shows area
\* holds a shows container: recorded before each open.
Filled(m) ==
  [cover |-> m.modalCover.children # <<>>,
   shows |-> m.modalSeasons.children # <<>>]

\* History: the most recent click or key event (lastEvent), the most recent
\* open (its arguments, the listener that made it, what the modal showed
\* before it) and the most recent filter token (and whether that change
\* brought a card into the grid that the grid did not show before it).
NoOpen == [set |-> FALSE, item |-> NoItem, isGenre |-> FALSE, via |-> "",
           before |-> Filled(NewModal)]
Opened(item, isGenre, via) ==
  [set |-> TRUE, item |-> item, isGenre |-> isGenre, via |-> via,
   before |-> Filled(modal)]
NoToken == [set |-> FALSE, token |-> Undefined, widened |-> FALSE]

\* The items of the cards a grid shows.
CardItems(el) ==
  {el.children[i].click.item :
     i \in {j \in DOMAIN el.children : el.children[j].click.fn = "openModal"}}

Init ==
  /\ podcasts \in PodcastLists
  /\ genres \in GenreLists
  /\ now = Now0
  /\ grid = renderItems(EmptyGrid, podcasts, "podcast")
  /\ modal = NewModal
  /\ lastEvent = "load"
  /\ lastOpen = NoOpen
  /\ lastToken = NoToken
  /\ call = NoCall
  /\ ret = NoRet
  /\ pc = "page"

\* The change listener filtering the items the grid shows, not podcasts.
Change_stacked(i) ==
  LET value == populateGenreFilter[i]
      cards == filter(grid.children,
                 [j \in 1..Len(grid.children) |-> grid.children[j].click.fn = "openModal"])
      shown == [j \in 1..Len(cards) |-> cards[j].click.item]
      filtered == filterByGenre(shown, value)
  IN /\ grid' = renderItems(grid, filtered, "podcast")
     /\ lastToken' = [set |-> TRUE, token |-> value,
                      widened |-> CardItems(grid') \ CardItems(grid) # {}]
     /\ UNCHANGED <<podcasts, genres, now, modal, lastEvent, lastOpen, call, ret, pc>>

\* The filter control's change listener.
Change(i) ==
  LET value == populateGenreFilter[i]
      filtered == filterByGenre(podcasts, value)
  IN /\ grid' = renderItems(grid, filtered, "podcast")
     /\ lastToken' = [set |-> TRUE, token |-> value,
                      widened |-> CardItems(grid') \ CardItems(grid) # {}]
     /\ UNCHANGED <<podcasts, genres, now, modal, lastEvent, lastOpen, call, ret, pc>>

\* A click on card i of the grid: the card's listener, then the window's.
ClickCard(i) ==
  LET h == grid.children[i].click
  IN /\ h.fn = "openModal"
     /\ modal' = windowClick(openModal(modal, h.item, h.type), "card")
     /\ lastOpen' = Opened(h.item, h.type = "genre", "clickCard")
     /\ lastEvent' = "clickCard"
     /\ UNCHANGED <<podcasts, genres, now, grid, lastToken, call, ret, pc>>

\* openModal(genre, 'genre'), the way a genre's detail view is opened.
OpenGenre(i) ==
  /\ modal' = openModal(modal, genres[i], "genre")
  /\ lastOpen' = Opened(genres[i], TRUE, "openGenre")
  /\ lastEvent' = "openGenre"
  /\ UNCHANGED <<podcasts, genres, now, grid, lastToken, call, ret, pc>>

\* The show entries of the seasons/shows area (none outside a genre view
\* with matching shows).
ShowEntries(m) ==
  IF m.modalSeasons.children = <<>> THEN <<>>
  ELSE m.modalSeasons.children[1].children

\* The show entry's listener calling open(show, true).
ClickShow_asGenre(i) ==
  LET h == ShowEntries(modal)[i].click
  IN /\ ~modal.hidden
     /\ h.fn = "open"
     /\ modal' = windowClick(open(modal, h.item, TRUE), "show-item")
     /\ lastOpen' = Opened(h.item, FALSE, "clickShow")
     /\ lastEvent' = "clickShow"
     /\ UNCHANGED <<podcasts, genres, now, grid, lastToken, call, ret, pc>>

\* A click on show entry i of the visible genre view.
ClickShow(i) ==
  LET h == ShowEntries(modal)[i].click
  IN /\ ~modal.hidden
     /\ h.fn = "open"
     /\ modal' = windowClick(open(modal, h.item, FALSE), "show-item")
     /\ lastOpen' = Opened(h.item, FALSE, "clickShow")
     /\ lastEvent' = "clickShow"
     /\ UNCHANGED <<podcasts, genres, now, grid, lastToken, call, ret, pc>>

\* A click on the close control of the visible modal.
ClickCloseBtn ==
  /\ ~modal.hidden
  /\ modal' = windowClick(close(modal), "close-btn")
  /\ lastEvent' = "clickCloseBtn"
  /\ UNCHANGED <<podcasts, genres, now, grid, lastOpen, lastToken, call, ret, pc>>

\* A click on the overlay backdrop, the modal element itself.
ClickBackdrop ==
  /\ ~modal.hidden
  /\ modal' = windowClick(modal, "modal")
  /\ lastEvent' = "clickBackdrop"
  /\ UNCHANGED <<podcasts, genres, now, grid, lastOpen, lastToken, call, ret, pc>>

\* A click inside the modal content, on no control.
ClickInside ==
  /\ ~modal.hidden
  /\ modal' = windowClick(modal, "modal-content")
  /\ lastEvent' = "clickInside"
  /\ UNCHANGED <<podcasts, genres, now, grid, lastOpen, lastToken, call, ret, pc>>

Keys == {"Escape", "Enter"}

KeyDown(key) ==
  /\ modal' = windowKeydown(modal, key)
  /\ lastEvent' = IF key = "Escape" THEN "keydownEscape" ELSE "keydownOther"
  /\ UNCHANGED <<podcasts, genres, now, grid, lastOpen, lastToken, call, ret, pc>>

Next ==
  \/ \E i \in DOMAIN populateGenreFilter : Change(i)
  \/ \E i \in DOMAIN grid.children : ClickCard(i)
  \/ \E i \in DOMAIN genres : OpenGenre(i)
  \/ \E i \in DOMAIN ShowEntries(modal) : ClickShow(i)
  \/ ClickCloseBtn
  \/ ClickBackdrop
  \/ ClickInside
  \/ \E key \in Keys : KeyDown(key)

Spec == Init /\ [][Next]_vars

----------------------------------------------------------------------------
(* Calls of the functions on inputs of their whole domain                  *)

TokenChars == {"1", "2", " ", "-", "a", "l"}
Tokens == {Str(chars) : chars \in SeqsUpTo(TokenChars, MaxTokenLen)}

FilterItem(k, gs) ==
  Obj(Num(k), Str(<<"Item ">> \o NumToStr(k)), Undefined, Undefined, Undefined,
      Arr(gs), Undefined, Undefined)

FilterPool ==
  {FilterItem(1, <<>>), FilterItem(2, <<Num(1)>>), FilterItem(3, <<Num(2), Num(1)>>)}

FilterCalls ==
  {[NoCall EXCEPT !.fn = "filterByGenre", !.items = items, !.token = token] :
     items \in SeqsUpTo(FilterPool, MaxItems), token \in Tokens}

NowSet == {Now0, Now0 + DaySeconds \div 2}

\* Timestamps d whole days and a part of a day before (d < 0: after) nw.
Timestamps(nw) ==
  {Iso(nw - d * DaySeconds - part) :
     d \in (0 - MaxAge)..MaxAge, part \in {0, 1, DaySeconds - 1}}

FormatCalls(nw) ==
  {[NoCall EXCEPT !.fn = "formatDate", !.iso = iso] :
     iso \in Timestamps(nw) \cup {Undefined}}

CardPool(nw) ==
  {Obj(Num(7), Str(<<"Show 7">>), Str(<<"About 7">>), image, seasons, gs, updated,
       Undefined) :
     image \in {Undefined, Str(<<"https://img/7">>)},
     seasons \in {Undefined, Num(3)},
     gs \in {Undefined, Arr(<<Num(1), Num(9)>>)},
     updated \in {Undefined, Iso(nw - 2 * DaySeconds), Iso(nw - 40 * DaySeconds)}}

CardCalls(nw) ==
  {[NoCall EXCEPT !.fn = "createCard", !.items = <<item>>, !.type = type] :
     item \in CardPool(nw), type \in {"podcast", "genre"}}

RenderPool ==
  {Podcast(Num(1), Arr(<<Num(1)>>), TRUE), Podcast(Num(2), Arr(<<>>), FALSE),
   Genre(1, Undefined)}

\* What the grid may hold before a render: nothing, the placeholder, a card.
PriorGrids ==
  {EmptyGrid} \cup {renderItems(EmptyGrid, items, "podcast") :
                      items \in SeqsUpTo(RenderPool, 1)}

RenderCalls ==
  {[NoCall EXCEPT !.fn = "renderItems", !.items = items, !.type = type,
                  !.before = before] :
     items \in SeqsUpTo(RenderPool, MaxItems), type \in {"podcast", "genre"},
     before \in PriorGrids}

StdGenres == <<Genre(1, Undefined), Genre(2, Undefined)>>

InitCalls ==
  /\ podcasts = <<>>
  /\ genres = StdGenres
  /\ now \in NowSet
  /\ call \in FilterCalls \cup FormatCalls(now) \cup CardCalls(now) \cup RenderCalls
  /\ grid = call.before
  /\ modal = NewModal
  /\ lastEvent = "load"
  /\ lastOpen = NoOpen
  /\ lastToken = NoToken
  /\ ret = NoRet
  /\ pc = "call"

Return(r) ==
  /\ ret' = r
  /\ pc' = "done"
  /\ UNCHANGED <<podcasts, genres, now, grid, modal, lastEvent, lastOpen,
                 lastToken, call>>

FilterCall ==
  /\ pc = "call"
  /\ call.fn = "filterByGenre"
  /\ Return([NoRet EXCEPT !.items = filterByGenre(call.items, call.token)])

FormatCall ==
  /\ pc = "call"
  /\ call.fn = "formatDate"
  /\ Return([NoRet EXCEPT !.value = formatDate(call.iso)])

CardCall ==
  /\ pc = "call"
  /\ call.fn = "createCard"
  /\ Return([NoRet EXCEPT !.node = createCard(call.items[1], call.type)])

RenderCall ==
  /\ pc = "call"
  /\ call.fn = "renderItems"
  /\ grid' = renderItems(grid, call.items, call.type)
  /\ pc' = "done"
  /\ UNCHANGED <<podcasts, genres, now, modal, lastEvent, lastOpen, lastToken,
                 call, ret>>

NextCalls == FilterCall \/ FormatCall \/ CardCall \/ RenderCall

SpecCalls == InitCalls /\ [][NextCalls]_vars

----------------------------------------------------------------------------
(* Properties                                                              *)

TagTexts(el) == [i \in DOMAIN el.children |-> el.children[i].text]

\* The title a genre id is shown with.
Label(id) ==
  LET named == {i \in DOMAIN genres : genres[i].id = id}
  IN IF named = {} THEN <<"Genre ">> \o ToStr(id)
     ELSE ToStr(genres[CHOOSE i \in named : \A j \in named : j <= i].title)

\* C1: the modal's content is that of the most recent open call alone. A
\* genre view has no cover, no updated text and no seasons line, its one tag
\* is the genre's and its area holds the shows container; a podcast view
\* has the podcast's cover, updated text, tags and seasons line (each empty
\* when the podcast lacks the field) and no shows container.
C1_LastOpenWins ==
  lastOpen.set =>
    LET d == lastOpen.item
    IN /\ modal.modalTitle.text = ToStr(d.title)
       /\ modal.modalDesc.text = ToStr(d.description)
       /\ modal.modalTitle.children = <<>> /\ modal.modalDesc.children = <<>>
       /\ modal.modalUpdated.children = <<>>
       /\ modal.sectionTitle.children = <<>>
       /\ modal.modalCover.text = <<>> /\ modal.modalGenres.text = <<>>
       /\ IF lastOpen.isGenre
          THEN /\ modal.modalCover.children = <<>>
               /\ modal.modalUpdated.text = <<>>
               /\ modal.sectionTitle.text = <<"Shows">>
               /\ TagTexts(modal.modalGenres) = <<Label(d.id)>>
               /\ modal.modalSeasons.text = <<>>
               /\ Len(modal.modalSeasons.children) = 1
               /\ modal.modalSeasons.children[1].className = <<"shows-list">>
               /\ \A i \in DOMAIN ShowEntries(modal) :
                    /\ ShowEntries(modal)[i].click.item.id \in
                         {podcasts[j].id : j \in DOMAIN podcasts}
                    /\ \E k \in DOMAIN d.shows.a :
                         ToStr(d.shows.a[k]) = ToStr(ShowEntries(modal)[i].click.item.id)
          ELSE /\ IF d.image.t = "undefined" THEN modal.modalCover.children = <<>>
                  ELSE /\ Len(modal.modalCover.children) = 1
                       /\ modal.modalCover.children[1].attrs[1] = Attr("src", d.image)
                       /\ modal.modalCover.children[1].attrs[2].value
                            = ToStr(d.title) \o <<" Cover">>
               /\ IF d.updated.t = "undefined" THEN modal.modalUpdated.text = <<>>
                  ELSE modal.modalUpdated.text
                         = <<Calendar, "Last updated: ", "long">>
                             \o NumToStr(d.updated.n \div DaySeconds)
               /\ modal.sectionTitle.text = <<"Seasons">>
               /\ TagTexts(modal.modalGenres)
                    = [i \in DOMAIN d.genres.a |-> Label(d.genres.a[i])]
               /\ modal.modalSeasons.children = <<>>
               /\ modal.modalSeasons.text
                    = IF d.seasons.t = "undefined" THEN <<>>
                      ELSE <<"Seasons: ">> \o NumToStr(d.seasons.n)

\* C1 happens: a genre was opened over a view that showed a cover image.
C1_Witness ==
  /\ lastOpen.set /\ lastOpen.isGenre
  /\ lastOpen.before.cover
  /\ ~modal.hidden

CloseEvents == {"clickCloseBtn", "clickBackdrop", "keydownEscape"}

\* The step is a click or key event of a kind in E (a change of the filter
\* control leaves lastEvent as it was, and changes the grid or the token).
Event(E) == lastEvent' \in E /\ grid' = grid /\ lastToken' = lastToken

\* C2: a click on the close control, a click on the backdrop and an Escape
\* key press each leave the overlay hidden and everything else of the modal
\* as it was (so nothing changes when it was hidden already); a click
\* inside the modal content leaves the modal as it was, still open.
C2_CloseHides ==
  [][/\ Event(CloseEvents) =>
         /\ modal'.hidden
         /\ [modal' EXCEPT !.hidden = modal.hidden] = modal
     /\ Event({"clickInside"}) => (modal' = modal /\ ~modal'.hidden)]_vars

\* C2 happens: the opened modal was closed by a click on its backdrop.
C2_Witness ==
  /\ lastEvent = "clickBackdrop"
  /\ lastOpen.set
  /\ modal.hidden

\* The indices of the items that list genre id g.
Having(items, g) ==
  {i \in DOMAIN items : \E k \in DOMAIN items[i].genres.a : items[i].genres.a[k] = Num(g)}

\* out is items restricted to the indices of keep, in order.
IsRestriction(out, items, keep) ==
  /\ Len(out) = Cardinality(keep)
  /\ \E f \in [DOMAIN out -> keep] :
       /\ \A i, j \in DOMAIN out : (i < j => f[i] < f[j])
       /\ \A i \in DOMAIN out : out[i] = items[f[i]]

\* C3: for a genre id g given as its token, filterByGenre returns exactly
\* the items that list g, in their original order.
C3_FilterExact ==
  (pc = "done" /\ call.fn = "filterByGenre") =>
    \A g \in 0..MaxGenreId :
      (call.token = Str(NumToStr(g)) =>
         IsRestriction(ret.items, call.items, Having(call.items, g)))

\* C3 happens: a filter by genre 2 kept one of two items.
C3_Witness ==
  /\ pc = "done" /\ call.fn = "filterByGenre"
  /\ call.token = Str(<<"2">>)
  /\ Len(call.items) = 2 /\ Len(ret.items) = 1

\* A token written as a number: an optionally signed run of digits, white
\* space around it allowed.
WrittenAsNumber(chars) ==
  \E i, j \in DOMAIN chars :
    /\ i <= j
    /\ \A k \in DOMAIN chars : ((k < i \/ k > j) => chars[k] = " ")
    /\ \E b \in {i, i + 1} :
         /\ b <= j
         /\ (b = i + 1 => chars[i] \in {"-", "+"})
         /\ \A k \in b..j : IsDigit(chars[k])

\* C4: for "all" and for every token that is not written as a number,
\* filterByGenre returns its input unchanged.
C4_FailOpen ==
  (pc = "done" /\ call.fn = "filterByGenre"
     /\ (call.token = Str(All) \/ ~WrittenAsNumber(call.token.s)))
    => ret.items = call.items

Placeholder == <<"No items found.">>

\* C5: after renderItems the grid holds, for no items, the one placeholder
\* and, for items, one card per item in input order and nothing else.
C5_RenderExact ==
  (pc = "done" /\ call.fn = "renderItems") =>
    /\ grid.text = <<>>
    /\ IF call.items = <<>>
       THEN /\ Len(grid.children) = 1
            /\ grid.children[1].tag = "p"
            /\ grid.children[1].text = Placeholder
            /\ grid.children[1].click = NoHandler
       ELSE /\ Len(grid.children) = Len(call.items)
            /\ \A i \in DOMAIN grid.children :
                 /\ grid.children[i].click
                      = Handler("openModal", call.items[i], call.type)
                 /\ grid.children[i].className
                      = IF call.type = "podcast" THEN <<"card">>
                        ELSE <<"card genre-card">>
                 /\ grid.children[i].text # Placeholder

\* C5 happens: two items were rendered into a grid that held something.
C5_Witness ==
  /\ pc = "done" /\ call.fn = "renderItems"
  /\ Len(call.items) = 2
  /\ call.before.children # <<>>

\* A numeric id and its string form are the same id, either way round.
SameId(x, y) ==
  \/ x = y
  \/ x.t = "number" /\ y.t = "string" /\ y.s = NumToStr(x.n)
  \/ x.t = "string" /\ y.t = "number" /\ x.s = NumToStr(y.n)

\* The indices of the podcasts a genre's shows list names.
Named(genre) ==
  IF genre.shows.t = "undefined" THEN {}
  ELSE {i \in DOMAIN podcasts :
          \E k \in DOMAIN genre.shows.a : SameId(podcasts[i].id, genre.shows.a[k])}

\* C6: the genre view lists exactly the podcasts whose id is named by the
\* genre's shows list, a number and its string form being the same id either
\* way round, in collection order; with none it shows the one message.
C6_TolerantShows ==
  (lastOpen.set /\ lastOpen.isGenre) =>
    LET container == modal.modalSeasons.children[1]
        shown == [i \in DOMAIN container.children |-> container.children[i].click.item]
    IN IF Named(lastOpen.item) = {}
       THEN container.text = NoShowsText /\ container.children = <<>>
       ELSE container.text = <<>>
              /\ IsRestriction(shown, podcasts, Named(lastOpen.item))

\* C7: with d the whole-day difference, the label is "Updated today" for
\* d = 0, "Updated yesterday" for d = 1, "Updated d days ago" for d in
\* 2..30 and "Updated on <date>" for every other d, negative ones included.
C7_Rules ==
  (pc = "done" /\ call.fn = "formatDate" /\ call.iso.t # "undefined") =>
    LET d == (now - call.iso.n) \div DaySeconds
    IN CASE d = 0 -> ret.value = Str(<<"Updated today">>)
         [] d = 1 -> ret.value = Str(<<"Updated yesterday">>)
         [] d >= 2 /\ d <= 30 ->
              ret.value = Str(<<"Updated ">> \o NumToStr(d) \o <<" days ago">>)
         [] OTHER -> Head(ret.value.s) = "Updated on "

\* What the grid holds when it shows items as podcast cards.
Shows(el, items) ==
  /\ el.text = <<>>
  /\ IF items = <<>>
     THEN Len(el.children) = 1 /\ el.children[1].text = Placeholder
     ELSE el.children = [i \in DOMAIN items |-> createCard(items[i], "podcast")]

\* C8: no step changes the podcast collection, and a step that changes the
\* grid or the filter token leaves the grid showing the podcasts that
\* filterByGenre keeps of the whole collection for the new token, whatever
\* the grid showed before.
C8_LastFilterWins ==
  [][/\ podcasts' = podcasts
     /\ (grid' # grid \/ lastToken' # lastToken) =>
          /\ lastToken'.set
          /\ Shows(grid', filterByGenre(podcasts, lastToken'.token))]_vars

\* C8 happens: a filter by genre 2 brought back a card that the filter
\* before it had removed.
C8_Witness ==
  /\ lastToken.set /\ lastToken.widened
  /\ lastToken.token = Str(<<"2">>)
  /\ Len(grid.children) = 2

\* C9: a click on a show entry of the open genre view leaves the modal open
\* on that podcast's detail (label "Seasons", the podcast's title, no show
\* list); a close event after it hides the modal and leaves that detail in
\* it, not the genre view.
C9_ShowClickReplaces ==
  [][/\ Event({"clickShow"}) =>
         /\ lastOpen.isGenre /\ ~modal.hidden
         /\ \E i \in DOMAIN ShowEntries(modal) :
              /\ lastOpen'.item = ShowEntries(modal)[i].click.item
              /\ modal'.modalTitle.text = ShowEntries(modal)[i].text
         /\ lastOpen'.item \in {podcasts[j] : j \in DOMAIN podcasts}
         /\ ~lastOpen'.isGenre
         /\ ~modal'.hidden
         /\ modal'.sectionTitle.text = <<"Seasons">>
         /\ modal'.modalTitle.text = ToStr(lastOpen'.item.title)
         /\ modal'.modalSeasons.children = <<>>
     /\ (lastOpen.via = "clickShow" /\ ~modal.hidden /\ Event(CloseEvents)) =>
         /\ modal'.hidden
         /\ modal'.sectionTitle.text = <<"Seasons">>
         /\ modal'.modalTitle.text = ToStr(lastOpen.item.title)
         /\ modal'.modalSeasons.children = <<>>]_vars

\* C9 happens: a show entry of a genre view was clicked and the podcast
\* detail it opened was then closed.
C9_Witness ==
  /\ lastOpen.via = "clickShow"
  /\ lastOpen.before.shows
  /\ lastEvent \in CloseEvents
  /\ modal.hidden

\* The parts of a card with the given class.
Parts(card, cls) ==
  {card.children[i] : i \in {j \in DOMAIN card.children :
                              card.children[j].className = cls}}

\* C10: a podcast card shows nothing derived from a field the item lacks:
\* no cover image (or one without a source) for a missing image, no text in
\* the season line for a missing season count and none in the updated line
\* for a missing timestamp.
C10_MissingFieldsBlank ==
  (pc = "done" /\ call.fn = "createCard" /\ call.type = "podcast") =>
    LET item == call.items[1]
        card == ret.node
    IN /\ item.image.t = "undefined" =>
            \A cover \in Parts(card, <<"cover">>) :
              \A i \in DOMAIN cover.children :
                \A k \in DOMAIN cover.children[i].attrs :
                  (cover.children[i].attrs[k].key = "src"
                     => cover.children[i].attrs[k].value = <<>>)
       /\ item.seasons.t = "undefined" =>
            \A meta \in Parts(card, <<"meta">>) : meta.text = <<>>
       /\ item.updated.t = "undefined" =>
            \A updated \in Parts(card, <<"updated">>) : updated.text = <<>>

====
